---- MODULE Spec2Model ----
(***************************************************************************)
(* A model of sandfly-entropyscan: the file utilities of                   *)
(* fileutils/fileutils.go (IsElfType, Entropy, HashMD5, HashSHA1,          *)
(* HashSHA256, HashSHA512) and the driver of sandfly-entropyscan.go (main, *)
(* checkFilePath, genPIDExePaths, printResults).                           *)
(*                                                                         *)
(* Representation.                                                         *)
(*  - Go strings are sequences of one-character strings, so that           *)
(*    path.Join, filepath.Split, strconv.Itoa and the hex codecs can be    *)
(*    modelled by what they do.                                            *)
(*  - An int64 file size is the pair [hi, lo] standing for hi*Limb + lo,   *)
(*    because the size ceiling 2147483648 exceeds the integers TLC has.    *)
(*  - A file's content is `bytes` followed by pad*Limb bytes of value 0.   *)
(*  - An entropy is held in hundredths of a bit (Entropy rounds to two     *)
(*    decimals), the sentinel -1 therefore as -100, and a threshold in     *)
(*    hundredths as well.                                                  *)
(*  - Each pass over a file (open, stat, read, close) is one atomic step;  *)
(*    the filesystem may change between two passes.                        *)
(*  - The filesystem is observed target by target: `file` is what the      *)
(*    current target's path leads to, drawn when the target is reached     *)
(*    and changed by the environment between passes.                       *)
(*  - A digest is computed as a sequence of characters and kept in a      *)
(*    record as one string value ("" when empty).                          *)
(*  - printResults is modelled by the record it is handed (the text        *)
(*    formats are not).                                                    *)
(***************************************************************************)
EXTENDS Integers, Sequences, FiniteSets, TLC

VARIABLES
    file,       \* the file the current target's path leads to, as it is now
    mode,       \* "proc", "file", "dir" (the flag main acts on) or "unit"
    elfOnly,    \* the -elf flag
    entropyMaxVal, \* the -entropy flag, in hundredths
    pc,         \* position of main / checkFilePath
    targets,    \* pidPaths, or the names filepath.Walk visits, or <<filePath>>
    idx,        \* index into targets of the target being classified
    cfElfOnly,  \* checkFilePath's elfOnly argument
    fileInfo,   \* checkFilePath's record under construction
    output,     \* the records printResults has printed, in order
    calls,      \* fileutils functions invoked for the current target, in order
    hash,       \* checkFilePath's locals md5, sha1, sha256, sha512
    envLeft,    \* changes the environment may still make to the filesystem
    ret         \* unit mode: the last fileutils call and what it returned

vars == <<file, mode, elfOnly, entropyMaxVal, pc, targets, idx, cfElfOnly,
          fileInfo, output, calls, hash, envLeft, ret>>

----------------------------------------------------------------------------
(* Program constants *)

\* sandfly-entropyscan.go:54
constProcDir == <<"/", "p", "r", "o", "c">>
\* sandfly-entropyscan.go:58
constMinPID == 1
\* sandfly-entropyscan.go:60
constMaxPID == 4194304
\* fileutils.go:57
constMaxEntropyChunk == 256000
\* fileutils.go:59
constMagicNumRead == 4
\* fileutils.go:61
constMagicNumElf == <<"7", "f", "4", "5", "4", "c", "4", "6">>

\* 2^30, the base of the two-limb int64
Limb == 1073741824
\* fileutils.go:55: 2147483648 = 2 * Limb + 0
constMaxFileSize == [hi |-> 2, lo |-> 0]

(* Bounds of the model *)

\* longest explicit byte content of a file in unit mode
MaxLen == 5
\* process sweep: candidates are the pids constMinPID .. MaxPID - 1
MaxPID == 12
\* directory sweep: entries of the directory that is walked
MaxDirEntries == 2
\* changes the environment makes to the filesystem during one run
MaxEnvChanges == 1

----------------------------------------------------------------------------
(* Strings, bytes, int64 *)

Min(a, b) == IF a < b THEN a ELSE b

Int64(n) == [hi |-> n \div Limb, lo |-> n % Limb]
Int64Less(a, b) == a.hi < b.hi \/ (a.hi = b.hi /\ a.lo < b.lo)

HexDigits == <<"0", "1", "2", "3", "4", "5", "6", "7", "8", "9",
               "a", "b", "c", "d", "e", "f">>

\* encoding/hex fromHexChar: the value of one hex character, -1 if none
fromHexChar(c) ==
    IF \E i \in 1..16 : HexDigits[i] = c
    THEN (CHOOSE i \in 1..16 : HexDigits[i] = c) - 1
    ELSE IF c \in {"A", "B", "C", "D", "E", "F"}
         THEN CASE c = "A" -> 10 [] c = "B" -> 11 [] c = "C" -> 12
                [] c = "D" -> 13 [] c = "E" -> 14 [] c = "F" -> 15
         ELSE -1

\* encoding/hex DecodeString: two characters per byte
hexDecodeString(s) ==
    IF Len(s) % 2 = 1 \/ \E i \in 1..Len(s) : fromHexChar(s[i]) = -1
    THEN [bytes |-> <<>>, err |-> "ErrHex"]
    ELSE [bytes |-> [i \in 1..(Len(s) \div 2) |->
                        16 * fromHexChar(s[2 * i - 1]) + fromHexChar(s[2 * i])],
          err |-> "nil"]

\* encoding/hex EncodeToString: two lowercase characters per byte
hexEncodeToString(b) ==
    [i \in 1..(2 * Len(b)) |->
        IF i % 2 = 1 THEN HexDigits[(b[(i + 1) \div 2] \div 16) + 1]
                     ELSE HexDigits[(b[i \div 2] % 16) + 1]]

RECURSIVE flat(_, _, _)
flat(s, lo, hi) ==
    IF lo > hi THEN ""
    ELSE IF lo = hi THEN s[lo]
    ELSE flat(s, lo, (lo + hi) \div 2) \o flat(s, ((lo + hi) \div 2) + 1, hi)

\* a digest as it is kept in a record: the characters as one string value
str(s) == flat(s, 1, Len(s))

----------------------------------------------------------------------------
(* Files *)

Kinds == {"absent", "regular", "device", "fifo", "dir", "brokenlink", "noperm"}

mkFile(k, b, p, w) == [kind |-> k, bytes |-> b, pad |-> p, writer |-> w]

Absent == mkFile("absent", <<>>, 0, FALSE)
Regular(b) == mkFile("regular", b, 0, FALSE)
\* a regular file of b followed by p * Limb zero bytes
Sparse(b, p) == mkFile("regular", b, p, FALSE)

\* os.Open: "nil", or the errno it fails with
osOpen(f) ==
    CASE f.kind \in {"absent", "brokenlink"} -> "ENOENT"
      [] f.kind = "noperm" -> "EACCES"
      [] OTHER -> "nil"

\* os.Open of a FIFO that has no writer does not return
openBlocks(f) == f.kind = "fifo" /\ ~f.writer

\* fStat.Mode().IsRegular()
IsRegular(f) == f.kind = "regular"

\* fStat.Size()
Size(f) == IF f.kind = "regular" THEN [hi |-> f.pad, lo |-> Len(f.bytes)]
           ELSE [hi |-> 0, lo |-> 0]

\* the first n bytes of the content (n small), fewer when the file is shorter
Prefix(f, n) ==
    [i \in 1..(IF f.pad > 0 THEN n ELSE Min(n, Len(f.bytes))) |->
        IF i <= Len(f.bytes) THEN f.bytes[i] ELSE 0]

\* binary.Read of n bytes (io.ReadFull)
binaryRead(f, n) ==
    LET got == Prefix(f, n)
    IN IF Len(got) = n THEN [data |-> got, err |-> "nil"]
       ELSE IF Len(got) = 0 THEN [data |-> got, err |-> "EOF"]
       ELSE [data |-> got, err |-> "ErrUnexpectedEOF"]

----------------------------------------------------------------------------
(* fileutils.IsElfType *)

isElfRet(e, err, o, r) == [isElf |-> e, err |-> err, opens |-> o, read |-> r]

\* a variant of IsElfType whose size test of line 90 is <= instead of <
IsElfTypeSizeInclusive(path, f) ==
    IF path = <<>> THEN isElfRet(FALSE, "ErrNoPath", 0, FALSE)
    ELSE IF osOpen(f) # "nil" THEN isElfRet(FALSE, osOpen(f), 1, FALSE)
    ELSE IF ~IsRegular(f) THEN isElfRet(FALSE, "nil", 1, FALSE)
    ELSE IF ~Int64Less(Int64(constMagicNumRead), Size(f))
         THEN isElfRet(FALSE, "nil", 1, FALSE)
    ELSE IF SubSeq(binaryRead(f, constMagicNumRead).data, 1, 4)
            = hexDecodeString(constMagicNumElf).bytes
         THEN isElfRet(TRUE, "nil", 1, TRUE)
    ELSE isElfRet(FALSE, "nil", 1, TRUE)

\* a variant of IsElfType that treats a file that is not regular the way
\* Entropy does, as an error
IsElfTypeRegularErr(path, f) ==
    IF path = <<>> THEN isElfRet(FALSE, "ErrNoPath", 0, FALSE)
    ELSE IF osOpen(f) # "nil" THEN isElfRet(FALSE, osOpen(f), 1, FALSE)
    ELSE IF ~IsRegular(f) THEN isElfRet(FALSE, "ErrNotRegular", 1, FALSE)
    ELSE IF Int64Less(Size(f), Int64(constMagicNumRead))
         THEN isElfRet(FALSE, "nil", 1, FALSE)
    ELSE IF SubSeq(binaryRead(f, constMagicNumRead).data, 1, 4)
            = hexDecodeString(constMagicNumElf).bytes
         THEN isElfRet(TRUE, "nil", 1, TRUE)
    ELSE isElfRet(FALSE, "nil", 1, TRUE)

IsElfType(path, f) ==
    IF path = <<>> THEN isElfRet(FALSE, "ErrNoPath", 0, FALSE)
    ELSE IF osOpen(f) # "nil" THEN isElfRet(FALSE, osOpen(f), 1, FALSE)
    \* Not a regular file, so can't be ELF
    ELSE IF ~IsRegular(f) THEN isElfRet(FALSE, "nil", 1, FALSE)
    \* Too small to be ELF
    ELSE IF Int64Less(Size(f), Int64(constMagicNumRead))
         THEN isElfRet(FALSE, "nil", 1, FALSE)
    ELSE LET hexData == binaryRead(f, constMagicNumRead)
             elfType == hexDecodeString(constMagicNumElf)
         IN  IF hexData.err # "nil" THEN isElfRet(FALSE, hexData.err, 1, TRUE)
             ELSE IF elfType.err # "nil" THEN isElfRet(FALSE, elfType.err, 1, TRUE)
             ELSE IF Len(elfType.bytes) > constMagicNumRead
                  THEN isElfRet(FALSE, "ErrMagicLen", 1, TRUE)
             ELSE IF SubSeq(hexData.data, 1, Len(elfType.bytes)) = elfType.bytes
                  THEN isElfRet(TRUE, "nil", 1, TRUE)
             ELSE isElfRet(FALSE, "nil", 1, TRUE)

----------------------------------------------------------------------------
(* fileutils.Entropy *)

\* math.Log2 in millionths, for the counts that occur in the model's files
Log2Table == <<0, 1000000, 1584963, 2000000, 2321928, 2584963, 2807355,
               3000000, 3169925, 3321928, 3459432, 3584963, 3700440,
               3807355, 3906891, 4000000>>
Log2Micro(n) == IF n = 256 THEN 8000000 ELSE Log2Table[n]

\* lines 162-164: one chunk of numBytesRead bytes at offset off is tallied
tally(data, off, numBytesRead, byteCounts) ==
    [b \in 0..255 |->
        byteCounts[b]
        + Cardinality({i \in (off + 1)..(off + numBytesRead) : data[i] = b})]

RECURSIVE readLoop(_, _, _)
\* lines 150-165: f.Read delivers at most constMaxEntropyChunk bytes a time,
\* until io.EOF
readLoop(data, off, byteCounts) ==
    LET numBytesRead == Min(constMaxEntropyChunk, Len(data) - off)
    IN  IF numBytesRead = 0 THEN byteCounts
        ELSE readLoop(data, off + numBytesRead,
                      tally(data, off, numBytesRead, byteCounts))

\* byteCounts after the whole file was read, as int64: the zero padding of a
\* sparse file adds pad * Limb to the count of byte 0
byteCountsOf(f) ==
    LET lo == readLoop(f.bytes, 0, [b \in 0..255 |-> 0])
    IN  [b \in 0..255 |-> [hi |-> IF b = 0 THEN f.pad ELSE 0, lo |-> lo[b]]]

\* a variant of line 170 without the minus sign
pxTermNoMinus(count, size) ==
    IF count = Int64(0) THEN 0
    ELSE IF count = size THEN 0
    ELSE IF size.hi > 0 THEN 0
    ELSE count.lo * (Log2Micro(count.lo) - Log2Micro(size.lo))

\* lines 168-171: size * (-px * math.Log2(px)) in millionths, px = count/size;
\* 0 when px = 0 (skipped) and when px = 1 (Log2(1) = 0).  In a sparse file
\* (size.hi > 0) with a few explicit bytes px is below 2^-27 or above
\* 1 - 2^-27, and the term is below a millionth: 0 at this precision.
pxTerm(count, size) ==
    IF count = Int64(0) THEN 0
    ELSE IF count = size THEN 0
    ELSE IF size.hi > 0 THEN 0
    ELSE count.lo * (Log2Micro(size.lo) - Log2Micro(count.lo))

RECURSIVE sumTerms(_, _, _, _)
\* lines 167-172: the terms of the byte values lo..hi added up (the range is
\* halved to keep the evaluation shallow)
sumTerms(byteCounts, size, lo, hi) ==
    IF lo = hi THEN pxTerm(byteCounts[lo], size)
    ELSE sumTerms(byteCounts, size, lo, (lo + hi) \div 2)
         + sumTerms(byteCounts, size, ((lo + hi) \div 2) + 1, hi)

\* line 175: math.Round(entropy*100) / 100, kept in hundredths
roundCenti(sum, size) ==
    IF sum = 0 THEN 0 ELSE ((sum \div size.lo) + 5000) \div 10000

entropyRet(e, err, o, r) == [entropy |-> e, err |-> err, opens |-> o, read |-> r]

\* a variant of Entropy whose size test of line 143 is >= instead of >
EntropyCeilingInclusive(path, f) ==
    IF path = <<>> THEN entropyRet(0, "ErrNoPath", 0, FALSE)
    ELSE IF osOpen(f) # "nil" THEN entropyRet(0, osOpen(f), 1, FALSE)
    ELSE IF ~IsRegular(f) THEN entropyRet(0, "ErrNotRegular", 1, FALSE)
    ELSE IF Size(f) = Int64(0) THEN entropyRet(0, "nil", 1, FALSE)
    ELSE IF ~Int64Less(Size(f), constMaxFileSize)
         THEN entropyRet(0, "ErrTooLarge", 1, FALSE)
    ELSE entropyRet(roundCenti(sumTerms(byteCountsOf(f), Size(f), 0, 255), Size(f)),
                    "nil", 1, TRUE)

Entropy(path, f) ==
    IF path = <<>> THEN entropyRet(0, "ErrNoPath", 0, FALSE)
    ELSE IF osOpen(f) # "nil" THEN entropyRet(0, osOpen(f), 1, FALSE)
    ELSE IF ~IsRegular(f) THEN entropyRet(0, "ErrNotRegular", 1, FALSE)
    \* Zero sized file is zero entropy.
    ELSE IF Size(f) = Int64(0) THEN entropyRet(0, "nil", 1, FALSE)
    ELSE IF Int64Less(constMaxFileSize, Size(f))
         THEN entropyRet(0, "ErrTooLarge", 1, FALSE)
    ELSE entropyRet(roundCenti(sumTerms(byteCountsOf(f), Size(f), 0, 255), Size(f)),
                    "nil", 1, TRUE)

----------------------------------------------------------------------------
(* fileutils.HashMD5, HashSHA1, HashSHA256, HashSHA512 *)

\* digest sizes in bytes of crypto/md5, sha1, sha256, sha512
md5Size == 16
sha1Size == 20
sha256Size == 32
sha512Size == 64

RECURSIVE mix(_, _, _)
mix(b, lo, hi) ==
    IF lo > hi THEN 0
    ELSE IF lo = hi THEN (lo * (b[lo] + 1)) % 65521
    ELSE (mix(b, lo, (lo + hi) \div 2) + mix(b, ((lo + hi) \div 2) + 1, hi)) % 65521

\* hash.Sum after io.Copy: the digest functions themselves are abstracted to
\* a fixed function of the content that yields n bytes
digestSum(n, f) ==
    [i \in 1..n |-> (mix(f.bytes, 1, Len(f.bytes)) * n + 97 * f.pad + 31 * i) % 256]

hashRet(h, err, o, r) == [hash |-> h, err |-> err, opens |-> o, read |-> r]

\* a variant of HashMD5 without the zero-size return of lines 199-202
HashMD5HashesEmpty(path, f) ==
    IF path = <<>> THEN hashRet(<<>>, "ErrNoPath", 0, FALSE)
    ELSE IF osOpen(f) # "nil" THEN hashRet(<<>>, osOpen(f), 1, FALSE)
    ELSE IF ~IsRegular(f) THEN hashRet(<<>>, "ErrNotRegular", 1, FALSE)
    ELSE IF Int64Less(constMaxFileSize, Size(f))
         THEN hashRet(<<>>, "ErrTooLarge", 1, FALSE)
    ELSE hashRet(hexEncodeToString(digestSum(md5Size, f)), "nil", 1, TRUE)

HashMD5(path, f) ==
    IF path = <<>> THEN hashRet(<<>>, "ErrNoPath", 0, FALSE)
    ELSE IF osOpen(f) # "nil" THEN hashRet(<<>>, osOpen(f), 1, FALSE)
    ELSE IF ~IsRegular(f) THEN hashRet(<<>>, "ErrNotRegular", 1, FALSE)
    \* Zero sized file is no hash.
    ELSE IF Size(f) = Int64(0) THEN hashRet(<<>>, "nil", 1, FALSE)
    ELSE IF Int64Less(constMaxFileSize, Size(f))
         THEN hashRet(<<>>, "ErrTooLarge", 1, FALSE)
    ELSE hashRet(hexEncodeToString(digestSum(md5Size, f)), "nil", 1, TRUE)

HashSHA1(path, f) ==
    IF path = <<>> THEN hashRet(<<>>, "ErrNoPath", 0, FALSE)
    ELSE IF osOpen(f) # "nil" THEN hashRet(<<>>, osOpen(f), 1, FALSE)
    ELSE IF ~IsRegular(f) THEN hashRet(<<>>, "ErrNotRegular", 1, FALSE)
    \* Zero sized file is no hash.
    ELSE IF Size(f) = Int64(0) THEN hashRet(<<>>, "nil", 1, FALSE)
    ELSE IF Int64Less(constMaxFileSize, Size(f))
         THEN hashRet(<<>>, "ErrTooLarge", 1, FALSE)
    ELSE hashRet(hexEncodeToString(digestSum(sha1Size, f)), "nil", 1, TRUE)

HashSHA256(path, f) ==
    IF path = <<>> THEN hashRet(<<>>, "ErrNoPath", 0, FALSE)
    ELSE IF osOpen(f) # "nil" THEN hashRet(<<>>, osOpen(f), 1, FALSE)
    ELSE IF ~IsRegular(f) THEN hashRet(<<>>, "ErrNotRegular", 1, FALSE)
    \* Zero sized file is no hash.
    ELSE IF Size(f) = Int64(0) THEN hashRet(<<>>, "nil", 1, FALSE)
    ELSE IF Int64Less(constMaxFileSize, Size(f))
         THEN hashRet(<<>>, "ErrTooLarge", 1, FALSE)
    ELSE hashRet(hexEncodeToString(digestSum(sha256Size, f)), "nil", 1, TRUE)

\* a variant of HashSHA512 whose size test of line 330 is >= instead of >
HashSHA512CeilingInclusive(path, f) ==
    IF path = <<>> THEN hashRet(<<>>, "ErrNoPath", 0, FALSE)
    ELSE IF osOpen(f) # "nil" THEN hashRet(<<>>, osOpen(f), 1, FALSE)
    ELSE IF ~IsRegular(f) THEN hashRet(<<>>, "ErrNotRegular", 1, FALSE)
    ELSE IF Size(f) = Int64(0) THEN hashRet(<<>>, "nil", 1, FALSE)
    ELSE IF ~Int64Less(Size(f), constMaxFileSize)
         THEN hashRet(<<>>, "ErrTooLarge", 1, FALSE)
    ELSE hashRet(hexEncodeToString(digestSum(sha512Size, f)), "nil", 1, TRUE)

HashSHA512(path, f) ==
    IF path = <<>> THEN hashRet(<<>>, "ErrNoPath", 0, FALSE)
    ELSE IF osOpen(f) # "nil" THEN hashRet(<<>>, osOpen(f), 1, FALSE)
    ELSE IF ~IsRegular(f) THEN hashRet(<<>>, "ErrNotRegular", 1, FALSE)
    \* Zero sized file is no hash.
    ELSE IF Size(f) = Int64(0) THEN hashRet(<<>>, "nil", 1, FALSE)
    ELSE IF Int64Less(constMaxFileSize, Size(f))
         THEN hashRet(<<>>, "ErrTooLarge", 1, FALSE)
    ELSE hashRet(hexEncodeToString(digestSum(sha512Size, f)), "nil", 1, TRUE)

----------------------------------------------------------------------------
(* Paths: strconv.Itoa, path.Join, filepath.Split, genPIDExePaths *)

Digits == <<"0", "1", "2", "3", "4", "5", "6", "7", "8", "9">>

RECURSIVE Itoa(_)
\* strconv.Itoa of a non-negative int: its decimal digits
Itoa(n) == IF n < 10 THEN <<Digits[n + 1]>>
           ELSE Itoa(n \div 10) \o <<Digits[(n % 10) + 1]>>

RECURSIVE joinSlash(_)
\* strings.Join(elems, "/") over the non-empty elements
joinSlash(elems) ==
    IF elems = <<>> THEN <<>>
    ELSE IF Head(elems) = <<>> THEN joinSlash(Tail(elems))
    ELSE IF joinSlash(Tail(elems)) = <<>> THEN Head(elems)
    ELSE Head(elems) \o <<"/">> \o joinSlash(Tail(elems))

RECURSIVE Clean(_)
\* path.Clean on what Join produces here: runs of slashes become one slash
\* and a trailing slash is dropped (no "." or ".." element occurs)
Clean(s) ==
    IF Len(s) <= 1 THEN s
    ELSE IF s[1] = "/" /\ s[2] = "/" THEN Clean(Tail(s))
    ELSE IF Len(s) = 2 /\ s[2] = "/" THEN <<s[1]>>
    ELSE <<s[1]>> \o Clean(Tail(s))

\* path.Join
Join(elems) == Clean(joinSlash(elems))

RECURSIVE lastSlash(_, _)
lastSlash(s, i) == IF i = 0 \/ s[i] = "/" THEN i ELSE lastSlash(s, i - 1)

\* filepath.Split: the directory up to and including the last slash, and the
\* file name after it
Split(s) ==
    LET i == lastSlash(s, Len(s))
    IN  [dir |-> SubSeq(s, 1, i), file |-> SubSeq(s, i + 1, Len(s))]

\* the pid range that is swept: constMaxPID, cut down to the model's bound
PidCeiling == Min(constMaxPID, MaxPID)

RECURSIVE genLoopInclusive(_, _)
\* a variant of the loop of line 265 that runs to pid <= the ceiling
genLoopInclusive(pid, pidPaths) ==
    IF pid <= PidCeiling
    THEN genLoopInclusive(pid + 1,
                 Append(pidPaths,
                        Join(<<constProcDir, Itoa(pid), <<"/", "e", "x", "e">> >>)))
    ELSE pidPaths

RECURSIVE genLoop(_, _)
\* lines 265-267
genLoop(pid, pidPaths) ==
    IF pid < PidCeiling
    THEN genLoop(pid + 1,
                 Append(pidPaths,
                        Join(<<constProcDir, Itoa(pid), <<"/", "e", "x", "e">> >>)))
    ELSE pidPaths

genPIDExePaths == [pidPaths |-> genLoop(constMinPID, <<>>), err |-> "nil"]

\* the directory given by -dir, the names it holds in lexical order (the
\* order filepath.Walk visits them in), and the file given by -file
dirPath == <<"/", "d">>
DirNames == <<<<"a">>, <<"b">>, <<"c">>, <<"d">>, <<"e">>>>
filePath == <<"/", "t", "/", "x">>

----------------------------------------------------------------------------
(* The files of the model *)

ElfMagic == <<127, 69, 76, 70>>

ByteAlphabet == {0, 69, 70, 76, 127}

AllBytes == [i \in 1..256 |-> i - 1]

\* a FIFO is listed with and without a writer at its other end
NonRegularFiles ==
    { mkFile("device", <<>>, 0, FALSE), mkFile("dir", <<>>, 0, FALSE),
      mkFile("fifo", <<>>, 0, FALSE), mkFile("fifo", <<>>, 0, TRUE),
      mkFile("brokenlink", <<>>, 0, FALSE), mkFile("noperm", <<>>, 0, FALSE),
      Absent }

\* unit mode: every content up to MaxLen over the alphabet, the 256 distinct
\* bytes, and sparse files around the size ceiling
UnitFiles ==
    { Regular(b) : b \in UNION { [1..n -> ByteAlphabet] : n \in 0..MaxLen } }
    \cup { Regular(AllBytes) }
    \cup { Sparse(<<>>, 1), Sparse(<<>>, 2), Sparse(<<0>>, 2), Sparse(<<>>, 3),
           Sparse(ElfMagic, 1), Sparse(ElfMagic, 2) }
    \cup NonRegularFiles

\* the sweeps: a representative of each class
MainFiles ==
    { Regular(<<>>),                 \* empty
      Regular(ElfMagic),             \* ELF, entropy 2.00
      Sparse(ElfMagic, 1),           \* ELF, entropy 0.00
      Regular(<<70, 76, 69, 127>>),  \* not ELF, entropy 2.00
      Sparse(<<>>, 2),               \* not ELF, exactly at the size ceiling
      Sparse(ElfMagic, 2),           \* ELF, above the size ceiling
      Sparse(<<0>>, 2) }             \* not ELF, above the size ceiling
    \cup NonRegularFiles

\* the values of -entropy, in hundredths: two that main rejects, 0 and 2.00
Thresholds == {-1, 0, 200, 801}

\* what /proc/<pid>/exe leads to: nothing (no such pid), a link that may not
\* be followed (another user's process), or the executable's regular file
ProcFiles ==
    { Absent, mkFile("noperm", <<>>, 0, FALSE),
      Regular(ElfMagic), Sparse(ElfMagic, 1), Sparse(ElfMagic, 2),
      Regular(<<70, 76, 69, 127>>) }

\* the candidates of the process sweep that may lead to something, by their
\* index in pidPaths: the first and the last; every other pid is not running
LivePids == {1, PidCeiling - constMinPID}

\* what the environment may turn a path into between two passes: removed,
\* truncated, replaced by an ELF file, grown over the size ceiling
EnvFiles == { Absent, Regular(<<>>), Regular(ElfMagic), Sparse(<<0>>, 2) }

----------------------------------------------------------------------------
(* State *)

zeroHashes == [md5 |-> "", sha1 |-> "", sha256 |-> "", sha512 |-> ""]

\* the zero value of fileData
zeroFileData ==
    [path |-> <<>>, name |-> <<>>, entropy |-> 0, elf |-> FALSE,
     hash |-> zeroHashes]

noRet == [fn |-> "none"]

FatalPCs == {"Fatal105", "Fatal108", "Fatal115", "Fatal133", "Fatal146",
             "Fatal156", "Fatal224", "Fatal232", "Fatal240", "Fatal244",
             "Fatal248", "Fatal252"}

\* the log.Fatalf calls inside checkFilePath
CfpFatalPCs == {"Fatal224", "Fatal232", "Fatal240", "Fatal244", "Fatal248",
                "Fatal252"}

\* positions inside checkFilePath at which the next pass has not yet opened
\* the path
CfpPCs == {"IsElfType", "EntropyElf", "EntropyAll", "HashMD5", "HashSHA1",
           "HashSHA256", "HashSHA512"}

Init ==
    /\ mode \in {"proc", "file", "dir"}
    /\ elfOnly \in BOOLEAN
    /\ entropyMaxVal \in Thresholds
    /\ pc = "main"
    /\ file = Absent
    /\ targets = <<>>
    /\ idx = 0
    /\ cfElfOnly = FALSE
    /\ fileInfo = zeroFileData
    /\ output = <<>>
    /\ calls = <<>>
    /\ hash = zeroHashes
    /\ envLeft = MaxEnvChanges
    /\ ret = noRet

\* the call checkFilePath(targets[i], eo, entropyMaxVal): its frame is set up
callCheckFilePath(eo) ==
    /\ cfElfOnly' = eo
    /\ fileInfo' = zeroFileData
    /\ hash' = zeroHashes
    /\ calls' = <<>>
    /\ pc' = "IsElfType"

called(fn) == Append(calls, [fn |-> fn, saw |-> file])

----------------------------------------------------------------------------
(* main *)

\* lines 104-109 and the choice of lines 111, 130, 143
MainFlags ==
    /\ pc = "main"
    /\ IF entropyMaxVal > 800
       THEN /\ pc' = "Fatal105"
            /\ UNCHANGED <<file, targets, idx, cfElfOnly, fileInfo, calls, hash>>
       ELSE IF entropyMaxVal < 0
       THEN /\ pc' = "Fatal108"
            /\ UNCHANGED <<file, targets, idx, cfElfOnly, fileInfo, calls, hash>>
       ELSE IF mode = "proc"
       THEN /\ pc' = "genPIDExePaths"
            /\ UNCHANGED <<file, targets, idx, cfElfOnly, fileInfo, calls, hash>>
       ELSE IF mode = "file"
       THEN \* line 131
            /\ targets' = <<filePath>>
            /\ idx' = 1
            /\ file' \in MainFiles
            /\ callCheckFilePath(elfOnly)
       ELSE /\ pc' = "Walk"
            /\ UNCHANGED <<file, targets, idx, cfElfOnly, fileInfo, calls, hash>>
    /\ UNCHANGED <<mode, elfOnly, entropyMaxVal, output, envLeft, ret>>

\* a variant of printResults that writes the record before what was
\* written so far
printResultsFirst(out, fi) == <<fi>> \o out

\* lines 176-206: the record is written to standard output, after what was
\* written so far
printResults(out, fi) == Append(out, fi)

\* lines 113-116
MainGenPIDs ==
    /\ pc = "genPIDExePaths"
    /\ LET g == genPIDExePaths
       IN  IF g.err # "nil"
           THEN pc' = "Fatal115" /\ UNCHANGED <<targets, idx>>
           ELSE /\ targets' = g.pidPaths
                /\ idx' = 1
                /\ pc' = "ProcLoop"
    /\ UNCHANGED <<file, mode, elfOnly, entropyMaxVal, cfElfOnly, fileInfo,
                   output, calls, hash, envLeft, ret>>

\* a variant of line 119 that hands the -elf flag on
procElfOnlyFlag(eo) == eo

\* line 119: the process sweep calls checkFilePath with elfOnly true,
\* whatever the -elf flag says
procElfOnly(eo) == TRUE

\* lines 117-119 and 127: the next candidate, or the end of the sweep
MainProcLoop ==
    /\ pc = "ProcLoop"
    /\ IF idx <= Len(targets)
       THEN \E f \in ProcFiles :
                /\ f # Absent => idx \in LivePids
                /\ file' = f
                /\ callCheckFilePath(procElfOnly(elfOnly))
       ELSE /\ pc' = "Exit"
            /\ UNCHANGED <<file, cfElfOnly, fileInfo, calls, hash>>
    /\ UNCHANGED <<mode, elfOnly, entropyMaxVal, targets, idx, output, envLeft,
                   ret>>

\* lines 121-125
MainProcResult ==
    /\ mode = "proc"
    /\ pc \in {"Return", "ReturnErr"}
    /\ IF pc = "Return" /\ fileInfo.entropy >= entropyMaxVal
       THEN output' = printResults(output, fileInfo)
       ELSE output' = output
    /\ idx' = idx + 1
    /\ pc' = "ProcLoop"
    /\ UNCHANGED <<file, mode, elfOnly, entropyMaxVal, targets, cfElfOnly,
                   fileInfo, calls, hash, envLeft, ret>>

\* lines 132-140
MainFileResult ==
    /\ mode = "file"
    /\ pc \in {"Return", "ReturnErr"}
    /\ IF pc = "ReturnErr"
       THEN pc' = "Fatal133" /\ output' = output
       ELSE /\ IF fileInfo.entropy >= entropyMaxVal
               THEN output' = printResults(output, fileInfo)
               ELSE output' = output
            /\ pc' = "Exit"
    /\ UNCHANGED <<file, mode, elfOnly, entropyMaxVal, targets, idx, cfElfOnly,
                   fileInfo, calls, hash, envLeft, ret>>

\* lstat's Mode().IsRegular() and IsDir(): a file that may not be opened is
\* still a regular file to lstat
lstatIsRegular(f) == f.kind \in {"regular", "noperm"}
lstatIsDir(f) == f.kind = "dir"

\* line 167: filepath.Walk reads the names of the directory, sorted; the
\* root itself is handed to search first and skipped as a directory
WalkStart ==
    /\ pc = "Walk"
    /\ \E n \in 0..MaxDirEntries :
            targets' = [i \in 1..n |-> Join(<<dirPath, DirNames[i]>>)]
    /\ idx' = 1
    /\ pc' = "WalkNext"
    /\ UNCHANGED <<file, mode, elfOnly, entropyMaxVal, cfElfOnly, fileInfo,
                   output, calls, hash, envLeft, ret>>

\* filepath.Walk's lstat of the next name and search's lines 144-154 and
\* 162-166, or Walk's return and lines 168-171
WalkNext ==
    /\ pc = "WalkNext"
    /\ IF idx > Len(targets)
       THEN /\ pc' = "Exit"
            /\ UNCHANGED <<file, idx, cfElfOnly, fileInfo, calls, hash>>
       ELSE \E f \in MainFiles :
                /\ file' = f
                /\ IF f = Absent
                   THEN \* lstat fails: search is handed err
                        /\ pc' = "Fatal146"
                        /\ UNCHANGED <<idx, cfElfOnly, fileInfo, calls, hash>>
                   ELSE IF lstatIsDir(f) \/ ~lstatIsRegular(f)
                   THEN /\ idx' = idx + 1
                        /\ UNCHANGED <<pc, cfElfOnly, fileInfo, calls, hash>>
                   ELSE /\ callCheckFilePath(elfOnly)
                        /\ idx' = idx
    /\ UNCHANGED <<mode, elfOnly, entropyMaxVal, targets, output,
                   envLeft, ret>>

\* search, lines 155-161 and 165
SearchResult ==
    /\ mode = "dir"
    /\ pc \in {"Return", "ReturnErr"}
    /\ IF pc = "ReturnErr"
       THEN pc' = "Fatal156" /\ UNCHANGED <<output, idx>>
       ELSE /\ IF fileInfo.entropy >= entropyMaxVal
               THEN output' = printResults(output, fileInfo)
               ELSE output' = output
            /\ idx' = idx + 1
            /\ pc' = "WalkNext"
    /\ UNCHANGED <<file, mode, elfOnly, entropyMaxVal, targets, cfElfOnly,
                   fileInfo, calls, hash, envLeft, ret>>

----------------------------------------------------------------------------
(* checkFilePath *)

\* lines 209-218
CfpIsElfType ==
    /\ pc = "IsElfType"
    /\ ~openBlocks(file)
    /\ LET r == IsElfType(targets[idx], file)
       IN  IF r.err # "nil"
           THEN pc' = "ReturnErr" /\ fileInfo' = fileInfo
           ELSE /\ fileInfo' = [fileInfo EXCEPT
                                   !.path = targets[idx],
                                   !.name = Split(targets[idx]).file,
                                   !.elf = r.isElf,
                                   !.entropy = -100]
                /\ pc' = "EntropyElf"
    /\ calls' = called("IsElfType")
    /\ UNCHANGED <<file, mode, elfOnly, entropyMaxVal, targets, idx, cfElfOnly,
                   output, hash, envLeft, ret>>

\* a variant of line 221 that forgets the signature
wantElfEntropyAnyType(eo, isElfType) == eo

\* line 221: elfOnly && isElfType
wantElfEntropy(eo, isElfType) == eo /\ isElfType

\* lines 220-227: if they only want Linux ELFs
CfpEntropyElf ==
    /\ pc = "EntropyElf"
    /\ IF wantElfEntropy(cfElfOnly, fileInfo.elf)
       THEN /\ ~openBlocks(file)
            /\ LET r == Entropy(targets[idx], file)
               IN  IF r.err # "nil"
                   THEN pc' = "Fatal224" /\ fileInfo' = fileInfo
                   ELSE /\ fileInfo' = [fileInfo EXCEPT !.entropy = r.entropy]
                        /\ pc' = "EntropyAll"
            /\ calls' = called("Entropy")
       ELSE /\ pc' = "EntropyAll"
            /\ UNCHANGED <<fileInfo, calls>>
    /\ UNCHANGED <<file, mode, elfOnly, entropyMaxVal, targets, idx, cfElfOnly,
                   output, hash, envLeft, ret>>

\* a variant of line 229 that forgets the policy
wantAllEntropyAlways(eo) == TRUE

\* line 229: !elfOnly
wantAllEntropy(eo) == ~eo

\* lines 228-235: they want entropy on all files
CfpEntropyAll ==
    /\ pc = "EntropyAll"
    /\ IF wantAllEntropy(cfElfOnly)
       THEN /\ ~openBlocks(file)
            /\ LET r == Entropy(targets[idx], file)
               IN  IF r.err # "nil"
                   THEN pc' = "Fatal232" /\ fileInfo' = fileInfo
                   ELSE /\ fileInfo' = [fileInfo EXCEPT !.entropy = r.entropy]
                        /\ pc' = "HashMD5"
            /\ calls' = called("Entropy")
       ELSE /\ pc' = "HashMD5"
            /\ UNCHANGED <<fileInfo, calls>>
    /\ UNCHANGED <<file, mode, elfOnly, entropyMaxVal, targets, idx, cfElfOnly,
                   output, hash, envLeft, ret>>

\* a variant of line 237 that leaves out the threshold itself
hashGateStrict(fi, threshold) == fi.entropy > threshold

\* line 237: the gate of the four hash passes
hashGate(fi, threshold) == fi.entropy >= threshold

\* lines 237-241
CfpHashMD5 ==
    /\ pc = "HashMD5"
    /\ IF hashGate(fileInfo, entropyMaxVal)
       THEN /\ ~openBlocks(file)
            /\ LET r == HashMD5(targets[idx], file)
               IN  IF r.err # "nil"
                   THEN pc' = "Fatal240" /\ hash' = hash
                   ELSE /\ hash' = [hash EXCEPT !.md5 = str(r.hash)]
                        /\ pc' = "HashSHA1"
            /\ calls' = called("HashMD5")
       ELSE /\ pc' = "Return"
            /\ UNCHANGED <<hash, calls>>
    /\ UNCHANGED <<file, mode, elfOnly, entropyMaxVal, targets, idx, cfElfOnly,
                   fileInfo, output, envLeft, ret>>

\* lines 242-245
CfpHashSHA1 ==
    /\ pc = "HashSHA1"
    /\ ~openBlocks(file)
    /\ LET r == HashSHA1(targets[idx], file)
       IN  IF r.err # "nil"
           THEN pc' = "Fatal244" /\ hash' = hash
           ELSE /\ hash' = [hash EXCEPT !.sha1 = str(r.hash)]
                /\ pc' = "HashSHA256"
    /\ calls' = called("HashSHA1")
    /\ UNCHANGED <<file, mode, elfOnly, entropyMaxVal, targets, idx, cfElfOnly,
                   fileInfo, output, envLeft, ret>>

\* lines 246-249
CfpHashSHA256 ==
    /\ pc = "HashSHA256"
    /\ ~openBlocks(file)
    /\ LET r == HashSHA256(targets[idx], file)
       IN  IF r.err # "nil"
           THEN pc' = "Fatal248" /\ hash' = hash
           ELSE /\ hash' = [hash EXCEPT !.sha256 = str(r.hash)]
                /\ pc' = "HashSHA512"
    /\ calls' = called("HashSHA256")
    /\ UNCHANGED <<file, mode, elfOnly, entropyMaxVal, targets, idx, cfElfOnly,
                   fileInfo, output, envLeft, ret>>

\* lines 250-260
CfpHashSHA512 ==
    /\ pc = "HashSHA512"
    /\ ~openBlocks(file)
    /\ LET r == HashSHA512(targets[idx], file)
       IN  IF r.err # "nil"
           THEN pc' = "Fatal252" /\ UNCHANGED <<hash, fileInfo>>
           ELSE /\ hash' = [hash EXCEPT !.sha512 = str(r.hash)]
                /\ fileInfo' = [fileInfo EXCEPT
                                   !.hash = [hash EXCEPT !.sha512 = str(r.hash)]]
                /\ pc' = "Return"
    /\ calls' = called("HashSHA512")
    /\ UNCHANGED <<file, mode, elfOnly, entropyMaxVal, targets, idx, cfElfOnly,
                   output, envLeft, ret>>

----------------------------------------------------------------------------
(* The environment *)

\* between two passes of checkFilePath another process changes what the
\* path leads to: the file is removed, replaced, truncated, rewritten, or
\* the process whose image it is exits
EnvChange ==
    /\ pc \in CfpPCs
    /\ envLeft > 0
    /\ \E f \in EnvFiles \ {file} : file' = f
    /\ envLeft' = envLeft - 1
    /\ UNCHANGED <<mode, elfOnly, entropyMaxVal, pc, targets, idx, cfElfOnly,
                   fileInfo, output, calls, hash, ret>>

Next ==
    \/ MainFlags
    \/ MainGenPIDs
    \/ MainProcLoop
    \/ MainProcResult
    \/ MainFileResult
    \/ WalkStart
    \/ WalkNext
    \/ SearchResult
    \/ CfpIsElfType
    \/ CfpEntropyElf
    \/ CfpEntropyAll
    \/ CfpHashMD5
    \/ CfpHashSHA1
    \/ CfpHashSHA256
    \/ CfpHashSHA512
    \/ EnvChange

Spec == Init /\ [][Next]_vars

----------------------------------------------------------------------------
(* Unit mode: the fileutils functions applied to one file *)

InitUnit ==
    /\ mode = "unit"
    /\ file \in UnitFiles
    /\ pc = "unit"
    /\ elfOnly = FALSE
    /\ entropyMaxVal = 0
    /\ targets = <<filePath>>
    /\ idx = 1
    /\ cfElfOnly = FALSE
    /\ fileInfo = zeroFileData
    /\ output = <<>>
    /\ calls = <<>>
    /\ hash = zeroHashes
    /\ envLeft = 0
    /\ ret = noRet

unitFrame == UNCHANGED <<file, mode, elfOnly, entropyMaxVal, pc, targets, idx,
                         cfElfOnly, fileInfo, output, calls, hash, envLeft>>

\* the paths a function is called with: none, or the path of the file
UnitPaths == {<<>>, filePath}

\* a call returns unless its open blocks (no open is made for the empty path)
returns(path) == path = <<>> \/ ~openBlocks(file)

UnitIsElfType ==
    /\ mode = "unit"
    /\ ret = noRet
    /\ \E path \in UnitPaths :
        /\ returns(path)
        /\ ret' = [fn |-> "IsElfType", path |-> path, r |-> IsElfType(path, file)]
    /\ unitFrame

UnitEntropy ==
    /\ mode = "unit"
    /\ ret = noRet
    /\ \E path \in UnitPaths :
        /\ returns(path)
        /\ ret' = [fn |-> "Entropy", path |-> path, r |-> Entropy(path, file)]
    /\ unitFrame

UnitHashMD5 ==
    /\ mode = "unit"
    /\ ret = noRet
    /\ \E path \in UnitPaths :
        /\ returns(path)
        /\ ret' = [fn |-> "HashMD5", path |-> path, r |-> HashMD5(path, file)]
    /\ unitFrame

UnitHashSHA1 ==
    /\ mode = "unit"
    /\ ret = noRet
    /\ \E path \in UnitPaths :
        /\ returns(path)
        /\ ret' = [fn |-> "HashSHA1", path |-> path, r |-> HashSHA1(path, file)]
    /\ unitFrame

UnitHashSHA256 ==
    /\ mode = "unit"
    /\ ret = noRet
    /\ \E path \in UnitPaths :
        /\ returns(path)
        /\ ret' = [fn |-> "HashSHA256", path |-> path, r |-> HashSHA256(path, file)]
    /\ unitFrame

UnitHashSHA512 ==
    /\ mode = "unit"
    /\ ret = noRet
    /\ \E path \in UnitPaths :
        /\ returns(path)
        /\ ret' = [fn |-> "HashSHA512", path |-> path, r |-> HashSHA512(path, file)]
    /\ unitFrame

NextUnit ==
    \/ UnitIsElfType
    \/ UnitEntropy
    \/ UnitHashMD5
    \/ UnitHashSHA1
    \/ UnitHashSHA256
    \/ UnitHashSHA512

SpecUnit == InitUnit /\ [][NextUnit]_vars

----------------------------------------------------------------------------
(* Properties *)

HashFns == {"HashMD5", "HashSHA1", "HashSHA256", "HashSHA512"}

\* the functions invoked for the current target
invoked == {calls[i].fn : i \in 1..Len(calls)}

\* checkFilePath got past the signature check of the current target
signed == fileInfo.path # <<>>

\* C1: when checkFilePath runs with elfOnly = true and IsElfType returned
\* false without error, the signature check is the only call made for the
\* target (no Entropy, no hash function, one open), checkFilePath does not
\* stop on the way, and the record it returns has entropy -1 and four empty
\* digests.
C1_ElfOnlySkipsNonElf ==
    (mode # "unit" /\ signed /\ cfElfOnly /\ ~fileInfo.elf)
        => /\ Len(calls) = 1
           /\ calls[1].fn = "IsElfType"
           /\ pc \notin CfpFatalPCs
           /\ fileInfo.entropy = -100
           /\ fileInfo.hash = zeroHashes

C1_Witness ==
    /\ pc = "Return"
    /\ cfElfOnly
    /\ signed
    /\ ~fileInfo.elf
    /\ file.kind = "regular"
    /\ entropyMaxVal = 0

\* the file a function of the current target's classification saw
sawBy(fn) == calls[CHOOSE i \in 1..Len(calls) : calls[i].fn = fn].saw

\* a regular file of zero length
isEmptyFile(f) == f.kind = "regular" /\ f.pad = 0 /\ f.bytes = <<>>

allDigestsEmpty(fi) ==
    fi.hash.md5 = "" /\ fi.hash.sha1 = "" /\ fi.hash.sha256 = "" /\ fi.hash.sha512 = ""

allDigestsFilled(fi) ==
    fi.hash.md5 # "" /\ fi.hash.sha1 # "" /\ fi.hash.sha256 # "" /\ fi.hash.sha512 # ""

\* C2, as claimed: in the record checkFilePath returns for a target whose
\* entropy was computed, an entropy equal to the threshold comes with four
\* non-empty digests and an entropy below the threshold with four empty ones,
\* for every target.
C2_AsClaimed ==
    (pc = "Return" /\ "Entropy" \in invoked)
        => /\ fileInfo.entropy = entropyMaxVal => allDigestsFilled(fileInfo)
           /\ fileInfo.entropy < entropyMaxVal => allDigestsEmpty(fileInfo)

\* C2, amended: in the record checkFilePath returns for a target whose
\* entropy was computed, an entropy at or above the threshold means that the
\* four hash functions were invoked and each digest is non-empty exactly
\* when the file was not of zero length at the time that function opened it
\* (a zero-length file scanned with threshold 0.0 has four empty digests); an
\* entropy below the threshold means that no hash function was invoked and
\* the four digests are empty.
C2_ThresholdInclusive ==
    (pc = "Return" /\ "Entropy" \in invoked)
        => IF fileInfo.entropy >= entropyMaxVal
           THEN /\ HashFns \subseteq invoked
                /\ fileInfo.hash.md5 # "" <=> ~isEmptyFile(sawBy("HashMD5"))
                /\ fileInfo.hash.sha1 # "" <=> ~isEmptyFile(sawBy("HashSHA1"))
                /\ fileInfo.hash.sha256 # "" <=> ~isEmptyFile(sawBy("HashSHA256"))
                /\ fileInfo.hash.sha512 # "" <=> ~isEmptyFile(sawBy("HashSHA512"))
           ELSE /\ HashFns \cap invoked = {}
                /\ allDigestsEmpty(fileInfo)

\* a zero-length file, scanned with threshold 0.0, returned with entropy 0.00
\* and four empty digests although the four hash functions ran
C2_Witness ==
    /\ pc = "Return"
    /\ "Entropy" \in invoked
    /\ HashFns \subseteq invoked
    /\ isEmptyFile(file)
    /\ envLeft = MaxEnvChanges
    /\ fileInfo.entropy = 0
    /\ entropyMaxVal = 0
    /\ allDigestsEmpty(fileInfo)

\* C3, as claimed: in a process sweep no pass that finds the candidate's pid
\* gone (the open fails with ENOENT) ends the sweep, whichever pass it is.
C3_AsClaimed ==
    (mode = "proc" /\ pc \in FatalPCs /\ calls # <<>>)
        => calls[Len(calls)].saw # Absent

\* the benign failures of a directory sweep: the target is gone when a pass
\* opens it, or it is larger than the size ceiling
benign(f) ==
    \/ f = Absent
    \/ f.kind = "regular" /\ Int64Less(constMaxFileSize, Size(f))

\* C10, as claimed: in a directory sweep no pass that fails for a benign
\* reason (the size ceiling, a target gone when it is opened) ends the run.
C10_AsClaimed ==
    (mode = "dir" /\ pc \in (CfpFatalPCs \cup {"Fatal156"}) /\ calls # <<>>)
        => ~benign(calls[Len(calls)].saw)

\* the number a string of decimal digits stands for, -1 if it is none
digitOf(c) ==
    CASE c = "0" -> 0 [] c = "1" -> 1 [] c = "2" -> 2 [] c = "3" -> 3
      [] c = "4" -> 4 [] c = "5" -> 5 [] c = "6" -> 6 [] c = "7" -> 7
      [] c = "8" -> 8 [] c = "9" -> 9 [] OTHER -> -1

RECURSIVE decimalValue(_)
decimalValue(s) ==
    IF s = <<>> \/ digitOf(s[Len(s)]) = -1 THEN -1
    ELSE IF Len(s) = 1 THEN digitOf(s[1])
    ELSE IF decimalValue(SubSeq(s, 1, Len(s) - 1)) <= 0 THEN -1
    ELSE 10 * decimalValue(SubSeq(s, 1, Len(s) - 1)) + digitOf(s[Len(s)])

\* the pid a path of the form /proc/<pid>/exe names, -1 if it has another form
pidOfExePath(p) ==
    IF /\ Len(p) >= 11
       /\ SubSeq(p, 1, 6) = <<"/", "p", "r", "o", "c", "/">>
       /\ SubSeq(p, Len(p) - 3, Len(p)) = <<"/", "e", "x", "e">>
    THEN decimalValue(SubSeq(p, 7, Len(p) - 4))
    ELSE -1

\* C4: genPIDExePaths returns a nil error and, having made no call that
\* touches a file, the paths /proc/<pid>/exe of the pids from constMinPID up
\* to but excluding the ceiling (constMaxPID, here cut down to MaxPID): as
\* many paths as the ceiling minus constMinPID, the i-th naming the pid
\* constMinPID + i - 1, hence in increasing pid order and without duplicates.
C4_PidPaths ==
    (mode = "proc" /\ pc \notin {"main", "Fatal105", "Fatal108", "genPIDExePaths"})
        => /\ pc # "Fatal115"
           /\ Len(targets) = PidCeiling - constMinPID
           /\ \A i \in 1..Len(targets) :
                pidOfExePath(targets[i]) = constMinPID + i - 1
           /\ \A i, j \in 1..Len(targets) :
                i < j => /\ targets[i] # targets[j]
                         /\ pidOfExePath(targets[i]) < pidOfExePath(targets[j])
           /\ \A i \in 1..Len(targets) : pidOfExePath(targets[i]) # PidCeiling
           /\ (pc = "ProcLoop" /\ idx = 1) => (calls = <<>> /\ file = Absent)

\* the list as main holds it right after the call, with a pid of two digits
C4_Witness ==
    /\ mode = "proc"
    /\ pc = "ProcLoop"
    /\ idx = 1
    /\ Len(targets) >= 10
    /\ pidOfExePath(targets[10]) = 10
    /\ targets[1] = <<"/", "p", "r", "o", "c", "/", "1", "/", "e", "x", "e">>

----------------------------------------------------------------------------
(* Properties of the fileutils functions (unit mode) *)

\* a function was called with the file's path, and returned
returned(fn) == mode = "unit" /\ ret.fn = fn /\ ret.path # <<>>

\* byte i of the content, counted from 1
byteAt(f, i) == IF i <= Len(f.bytes) THEN f.bytes[i] ELSE 0

\* the content has at least n bytes
hasBytes(f, n) == f.pad > 0 \/ Len(f.bytes) >= n

\* the content starts with 7F 45 4C 46
startsWithElfMagic(f) ==
    /\ hasBytes(f, 4)
    /\ byteAt(f, 1) = 127 /\ byteAt(f, 2) = 69 /\ byteAt(f, 3) = 76
    /\ byteAt(f, 4) = 70

\* the size is above 2147483648 = 2 * 2^30
aboveCeiling(f) == f.pad > 2 \/ (f.pad = 2 /\ Len(f.bytes) > 0)

\* C5: for a regular file that can be opened IsElfType returns no error; it
\* returns true exactly when the file has at least 4 bytes and starts with
\* 7F 45 4C 46, and for a file of 0 to 3 bytes it returns false without
\* reading the content.
C5_ElfMagic ==
    (returned("IsElfType") /\ file.kind = "regular")
        => /\ ret.r.err = "nil"
           /\ ret.r.isElf <=> startsWithElfMagic(file)
           /\ ~hasBytes(file, 4) => (~ret.r.isElf /\ ~ret.r.read)

C5_Witness ==
    /\ returned("IsElfType")
    /\ file.kind = "regular"
    /\ Len(file.bytes) = 4
    /\ file.pad = 0
    /\ ret.r.isElf

\* C6, as claimed: for a special device, a FIFO or a broken symbolic link
\* IsElfType returns false with no error.
C6_AsClaimed ==
    (returned("IsElfType") /\ file.kind \in {"device", "fifo", "brokenlink"})
        => (~ret.r.isElf /\ ret.r.err = "nil")

\* C6, amended: for a target that is not a regular file and that can be
\* opened (a special device, a directory, a FIFO whose open returns)
\* IsElfType returns false with no error and reads nothing; for a broken
\* symbolic link the open fails and IsElfType returns false together with
\* that error (ENOENT).
C6_NotRegular ==
    /\ (returned("IsElfType") /\ file.kind \in {"device", "fifo", "dir"})
            => (~ret.r.isElf /\ ret.r.err = "nil" /\ ~ret.r.read)
    /\ (returned("IsElfType") /\ file.kind = "brokenlink")
            => (~ret.r.isElf /\ ret.r.err = "ENOENT" /\ ~ret.r.read)

C6_Witness ==
    /\ returned("IsElfType")
    /\ file.kind = "brokenlink"
    /\ ret.r.err = "ENOENT"

\* C7: Entropy returns an error and the value 0 for a target that is not a
\* regular file (whatever its size: the type is tested before the size) and
\* for a regular file above 2147483648 bytes; a file of exactly 2147483648
\* bytes is accepted; for a regular file of zero length it returns 0 with no
\* error and reads nothing.
C7_EntropyPreconditions ==
    returned("Entropy")
        => /\ file.kind # "regular" => (ret.r.err # "nil" /\ ret.r.entropy = 0)
           /\ file.kind \in {"device", "fifo", "dir"} => ret.r.err = "ErrNotRegular"
           /\ (file.kind = "regular" /\ aboveCeiling(file))
                => (ret.r.err = "ErrTooLarge" /\ ret.r.entropy = 0 /\ ~ret.r.read)
           /\ (file.kind = "regular" /\ ~aboveCeiling(file)) => ret.r.err = "nil"
           /\ isEmptyFile(file)
                => (ret.r.err = "nil" /\ ret.r.entropy = 0 /\ ~ret.r.read)

\* a file of exactly 2 * 2^30 bytes, accepted
C7_Witness ==
    /\ returned("Entropy")
    /\ file.kind = "regular"
    /\ file.pad = 2
    /\ file.bytes = <<>>
    /\ ret.r.err = "nil"
    /\ ret.r.read

\* the byte values of the explicit content, and how often b occurs in it
valuesOf(f) == {f.bytes[i] : i \in 1..Len(f.bytes)}
occurrences(f, b) == Cardinality({i \in 1..Len(f.bytes) : f.bytes[i] = b})

\* k byte values occur, each equally often
equallyOften(f, k) ==
    /\ f.kind = "regular" /\ f.pad = 0
    /\ Cardinality(valuesOf(f)) = k
    /\ \A b \in valuesOf(f) : k * occurrences(f, b) = Len(f.bytes)

\* C8: for a regular file within the size ceiling Entropy returns a value in
\* [0, 8]; 0.00 when one byte value is repeated, 8.00 when all 256 byte
\* values occur equally often, and the rounded sum of -p*log2(p) in between:
\* 1.00 and 2.00 for 2 and 4 values that occur equally often, 0.92 for a
\* value twice and another once (0.9183), 1.58 for three values once each
\* (1.585) and 2.32 for five values once each (2.3219).
C8_EntropyValue ==
    (returned("Entropy") /\ ret.r.err = "nil")
        => /\ ret.r.entropy >= 0 /\ ret.r.entropy <= 800
           /\ equallyOften(file, 1) => ret.r.entropy = 0
           /\ (file.pad > 0 /\ valuesOf(file) \subseteq {0}) => ret.r.entropy = 0
           /\ equallyOften(file, 256) => ret.r.entropy = 800
           /\ equallyOften(file, 2) => ret.r.entropy = 100
           /\ equallyOften(file, 4) => ret.r.entropy = 200
           /\ (file.pad = 0 /\ Len(file.bytes) = 3 /\ Cardinality(valuesOf(file)) = 2)
                => ret.r.entropy = 92
           /\ (file.pad = 0 /\ Len(file.bytes) = 3 /\ Cardinality(valuesOf(file)) = 3)
                => ret.r.entropy = 158
           /\ (file.pad = 0 /\ Len(file.bytes) = 5 /\ Cardinality(valuesOf(file)) = 5)
                => ret.r.entropy = 232

\* all 256 byte values once each: 8.00
C8_Witness ==
    /\ returned("Entropy")
    /\ equallyOften(file, 256)
    /\ ret.r.err = "nil"
    /\ ret.r.entropy = 800

LowerHex == {"0", "1", "2", "3", "4", "5", "6", "7", "8", "9",
             "a", "b", "c", "d", "e", "f"}

\* C9: each of the four hash functions fails exactly where Entropy fails
\* (the target cannot be opened, is not a regular file, or is above
\* 2147483648 bytes); for a regular file of zero length it returns the empty
\* string with no error, without reading; for every other accepted file it
\* returns a non-empty string of lowercase hexadecimal characters.
C9_HashPreconditions ==
    \A fn \in HashFns :
        returned(fn)
            => /\ ret.r.err # "nil" <=> Entropy(ret.path, file).err # "nil"
               /\ ret.r.err # "nil"
                    <=> (file.kind # "regular" \/ aboveCeiling(file))
               /\ ret.r.err # "nil" => ret.r.hash = <<>>
               /\ isEmptyFile(file)
                    => (ret.r.hash = <<>> /\ ret.r.err = "nil" /\ ~ret.r.read)
               /\ (ret.r.err = "nil" /\ ~isEmptyFile(file))
                    => /\ ret.r.hash # <<>>
                       /\ ret.r.read
                       /\ \A i \in 1..Len(ret.r.hash) : ret.r.hash[i] \in LowerHex

\* SHA512 of a file of exactly 2 * 2^30 bytes: 128 hexadecimal characters
C9_Witness ==
    /\ returned("HashSHA512")
    /\ file.kind = "regular"
    /\ file.pad = 2
    /\ file.bytes = <<>>
    /\ ret.r.err = "nil"
    /\ Len(ret.r.hash) = 128

\* C11: in each mode and for every threshold main accepts, when
\* checkFilePath has returned a record the caller prints it if and only if
\* the four hash functions were invoked for that target, the record printed
\* is the one returned, with the digests the hash passes produced; no other
\* step prints anything.
C11_SameGate ==
    [][ /\ pc = "Return"
            => /\ output' # output <=> HashFns \subseteq invoked
               /\ output' # output => output' = Append(output, fileInfo)
               /\ output' # output => fileInfo.hash = hash
               /\ output' = output => HashFns \cap invoked = {}
        /\ pc # "Return" => output' = output ]_vars

\* a record whose entropy equals the threshold 2.00 has been printed by the
\* single-file mode, after the four hash passes
C11_Witness ==
    /\ mode = "file"
    /\ pc = "Exit"
    /\ entropyMaxVal = 200
    /\ Len(output) = 1
    /\ output[1].entropy = entropyMaxVal
    /\ HashFns \subseteq invoked
    /\ allDigestsFilled(output[1])

\* C12, as claimed: in every mode, no pass of checkFilePath is about to open
\* a path whose open blocks (a FIFO with no writer): such a path has been
\* turned away by a regular-file check before.
C12_AsClaimed ==
    pc \in CfpPCs => ~openBlocks(file)

\* how many times fn was invoked for the current target
timesInvoked(fn) == Cardinality({i \in 1..Len(calls) : calls[i].fn = fn})

\* the position of fn's invocation among the calls made for the target
callIndex(fn) == CHOOSE i \in 1..Len(calls) : calls[i].fn = fn

\* checkFilePath is past lines 220-235 for the current target
pastEntropy == signed /\ pc \notin {"EntropyElf", "EntropyAll"}

\* C13: for every target and policy, checkFilePath invokes Entropy at most
\* once and each hash function at most once; nothing is invoked before the
\* signature check has returned without error; once past the entropy step,
\* Entropy has been invoked exactly when elfOnly is false or the target is
\* ELF; and a hash function has been invoked only after Entropy was invoked
\* for the target and returned a value greater than or equal to the
\* threshold.
C13_AtMostOnce ==
    /\ timesInvoked("IsElfType") <= 1
    /\ timesInvoked("Entropy") <= 1
    /\ \A h \in HashFns : timesInvoked(h) <= 1
    /\ ~signed => invoked \subseteq {"IsElfType"}
    /\ pastEntropy => ("Entropy" \in invoked <=> (~cfElfOnly \/ fileInfo.elf))
    /\ \A h \in HashFns :
          h \in invoked
            => /\ "Entropy" \in invoked
               /\ callIndex("Entropy") < callIndex(h)
               /\ fileInfo.entropy \in 0..800
               /\ fileInfo.entropy >= entropyMaxVal

\* an ELF target under elfOnly, classified in full: one signature check, one
\* Entropy, one of each hash function
C13_Witness ==
    /\ pc = "Return"
    /\ cfElfOnly
    /\ fileInfo.elf
    /\ Len(calls) = 6
    /\ timesInvoked("Entropy") = 1
    /\ \A h \in HashFns : timesInvoked(h) = 1

\* the place of a path in the order the targets were discovered in
targetIndex(p) == CHOOSE i \in 1..Len(targets) : targets[i] = p

\* the loops of main between two targets
BetweenTargets == {"main", "ProcLoop", "WalkNext"}

\* C14: processing is strictly sequential. The records printed so far are
\* in the order their targets were discovered in (increasing pid order in a
\* process sweep); the sweep moves from a target to the next one only, and
\* only once checkFilePath has returned for it (or Walk has skipped it);
\* every call of a fileutils function is made for the current target; a
\* record is printed right after its target's classification returned and
\* before the next target; and a target's first step starts from main's
\* loop, when every record printed belongs to an earlier target.
C14_Sequential ==
    /\ [](\A i, j \in 1..Len(output) :
            (i < j) => (targetIndex(output[i].path)
                          < targetIndex(output[j].path)))
    /\ [](mode = "proc"
            => (\A i, j \in 1..Len(output) :
                  (i < j) => (pidOfExePath(output[i].path)
                                < pidOfExePath(output[j].path))))
    /\ [][
            /\ idx' # idx
                => /\ idx' = idx + 1
                   /\ idx = 0 \/ pc \in {"Return", "ReturnErr", "WalkNext"}
            /\ (calls' # calls /\ calls' # <<>>)
                => /\ pc \in CfpPCs
                   /\ idx' = idx
                   /\ SubSeq(calls', 1, Len(calls)) = calls
            /\ output' # output
                => /\ pc = "Return"
                   /\ SubSeq(output', 1, Len(output)) = output
                   /\ Len(output') = Len(output) + 1
                   /\ output'[Len(output')] = fileInfo
                   /\ fileInfo.path = targets[idx]
            /\ (pc' = "IsElfType" /\ pc # "IsElfType")
                => /\ pc \in BetweenTargets
                   /\ calls' = <<>>
                   /\ \A i \in 1..Len(output) :
                        targetIndex(output[i].path) < idx' ]_vars

\* a process sweep that has printed the records of its first and of its last
\* candidate, in that order
C14_Witness ==
    /\ mode = "proc"
    /\ pc = "Exit"
    /\ Len(output) = 2
    /\ pidOfExePath(output[1].path) = constMinPID
    /\ pidOfExePath(output[2].path) = PidCeiling - 1

\* C15, as claimed: a record returned with computed digests has its entropy
\* and its four digests computed from the same byte content, whatever
\* another process does to the file during the classification.
C15_AsClaimed ==
    (pc = "Return" /\ HashFns \subseteq invoked /\ "Entropy" \in invoked)
        => \A h \in HashFns : sawBy(h) = sawBy("Entropy")

\* the thresholds main accepts, in hundredths: 0.00 to 8.00
accepted(threshold) == threshold \in 0..800

\* C16: a threshold outside [0, 8] ends the program before any target is
\* scanned (no target listed, no call made, nothing printed); for every
\* accepted threshold no printed record carries the sentinel entropy -1:
\* its entropy is a computed value in [0, 8], at or above the threshold;
\* and when elfOnly is in force (the -elf flag, and always in a process
\* sweep) every printed record has elf = true.
C16_NoSentinelPrinted ==
    /\ ~accepted(entropyMaxVal)
        => /\ pc \in {"main", "Fatal105", "Fatal108"}
           /\ targets = <<>> /\ calls = <<>> /\ output = <<>>
    /\ \A i \in 1..Len(output) :
          /\ output[i].entropy # -100
          /\ output[i].entropy \in 0..800
          /\ output[i].entropy >= entropyMaxVal
          /\ (elfOnly \/ mode = "proc") => output[i].elf

\* a process sweep run without the -elf flag has printed the record of an
\* ELF image and has gone past a candidate that is not ELF without printing
C16_Witness ==
    /\ mode = "proc"
    /\ ~elfOnly
    /\ accepted(entropyMaxVal)
    /\ Len(output) = 1
    /\ output[1].elf
    /\ pc = "Return"
    /\ ~fileInfo.elf
    /\ fileInfo.entropy = -100

====
